---------------------------- MODULE Spec2Model ----------------------------
(***************************************************************************)
(* A model of the rust-tools crate: the UTF-8 decoding iterator            *)
(* (iter.rs, Utf8Iter), the group-by streaming iterator (iter.rs, Groups   *)
(* and Group), the dedup iterator (iter.rs, DedupIter), the swap-based     *)
(* remove iterator (slice.rs, RemoveIter) and the in-place operations on   *)
(* buffers (slice.rs and str.rs: in_place, promote, swap_remove).          *)
(* Every iterator is modelled as a state machine whose actions are the     *)
(* pulls (next / next_streaming) translated from the code; every buffer    *)
(* operation is an action applied to a buffer with the arguments drawn     *)
(* from the views and indices a caller may pass.                           *)
(***************************************************************************)
EXTENDS Integers, Sequences, FiniteSets, TLC

VARIABLES
    ubytes,     \* Utf8Iter: the bytes the underlying source delivers
    upos,       \* Utf8Iter: number of bytes taken out of self.buf so far
    uitems,     \* Utf8Iter: history of the items yielded, one record per pull
    uended,     \* Utf8Iter: a pull has returned None (end of sequence)
    uorigin,    \* how ubytes was built: a bad-lead prefix and scalars, or raw
    gsrc,       \* Groups: the elements the underlying source delivers
    gf,         \* Groups: self.f, the key function
    gpos,       \* Groups: number of elements taken out of self.iter so far
    done,       \* Groups: self.done
    glive,      \* a Group yielded by the last outer pull is held by the caller
    gkey,       \* Group: self.g of the Group held
    outs,       \* history: one record per pair yielded, with the run pulled
    gended,     \* Groups: an outer pull has returned None
    drained,    \* history: every outer pull so far found the previous run ended
    glast,      \* history: the last outer pull
    rorig,      \* the slice as it was when remove_iter was called
    rslice,     \* RemoveIter: the contents of self.slice
    ridx,       \* RemoveIter: self.idx
    rpulls,     \* number of calls of RemoveIter::next_streaming that returned
    rlast,      \* what the last call of RemoveIter::next_streaming returned
    rended,     \* RemoveIter: a pull has returned None
    rpanic,     \* RemoveIter: a pull has panicked
    dsrc,       \* DedupIter: the elements the underlying source delivers
    dpos,       \* DedupIter: number of elements taken out of self.iter so far
    dout,       \* history: the elements yielded by DedupIter::next
    dended,     \* DedupIter: a pull has returned None
    bkind,      \* the buffer operated on: "vec" (Vec<T>, [T]) or "string"
    bsize,      \* mem::size_of::<T>() of the buffer's elements
    baddr,      \* as_ptr() of the buffer
    bcap,       \* capacity() of the buffer
    bdata,      \* the live contents of the buffer (its length is len())
    bpre,       \* history: the contents before the last operation
    bres        \* history: the last operation, its arguments and its result

uvars == <<ubytes, upos, uitems, uended, uorigin>>

gvars == <<gsrc, gf, gpos, done, glive, gkey, outs, gended, drained, glast>>

rvars == <<rorig, rslice, ridx, rpulls, rlast, rended, rpanic>>

dvars == <<dsrc, dpos, dout, dended>>

bvars == <<bkind, bsize, baddr, bcap, bdata, bpre, bres>>

vars == <<ubytes, upos, uitems, uended, uorigin,
          gsrc, gf, gpos, done, glive, gkey, outs, gended, drained, glast,
          rorig, rslice, ridx, rpulls, rlast, rended, rpanic,
          dsrc, dpos, dout, dended,
          bkind, bsize, baddr, bcap, bdata, bpre, bres>>

(***************************************************************************)
(* Bounds of the model.                                                    *)
(***************************************************************************)
\* longest raw byte source
MaxBytes == 4
\* longest sequence of scalars encoded into a source
MaxScalars == 2
\* longest source of the group-by iterator
MaxSrc == 4
\* longest slice of the remove iterator
MaxSlice == 4
\* longest source of the dedup iterator
MaxDedup == 5
\* longest buffer of in_place, promote and swap_remove
MaxBuf == 3

(***************************************************************************)
(* Input alphabets.  ByteSet holds the bytes on both sides of every        *)
(* boundary of the validation table of Utf8Iter::next.                     *)
(***************************************************************************)
ByteSet ==
    { 65,                       \* 0x41 ASCII
      143, 144, 159, 160, 191,  \* 0x8F 0x90 0x9F 0xA0 0xBF continuation
      192,                      \* 0xC0 two-byte lead
      224, 237,                 \* 0xE0 0xED three-byte leads
      240, 244, 245,            \* 0xF0 0xF4 0xF5 four leading ones
      255 }                     \* 0xFF eight leading ones

\* bytes that cannot start a unit: continuation bytes and >= 5 leading ones
BadLeadSet == { 128, 191, 248, 255 }

\* scalars on both sides of every encoded-width boundary and of the
\* surrogate gap, with the four scalars of the crate's test
ScalarSet ==
    { 0, 66, 127, 128, 611, 2047, 2048, 9731, 55295, 57344, 65535,
      65536, 132913, 262144, 1114111 }

SeqsUpTo(S, n) == UNION { [1..k -> S] : k \in 0..n }

RECURSIVE Pow2(_)
Pow2(n) == IF n = 0 THEN 1 ELSE 2 * Pow2(n - 1)

(***************************************************************************)
(* Utf8Iter::next                                                          *)
(***************************************************************************)
\* (!first).leading_zeros() on a u8: the number of leading one-bits of first
RECURSIVE LeadingOnesFrom(_, _)
LeadingOnesFrom(b, bit) ==
    IF bit < 0 THEN 0
    ELSE IF (b \div Pow2(bit)) % 2 = 1 THEN 1 + LeadingOnesFrom(b, bit - 1)
    ELSE 0

LeadingOnes(first) == LeadingOnesFrom(first, 7)

\* (next & 0xC0) == 0x80
IsCont(b) == b \div 64 = 2

\* next & CONT_MASK, CONT_MASK = (1 << 6) - 1
ContBits(b) == b % 64

SecondOkSurrogates(l, first, second) ==
    \/ l = 2 /\ IsCont(second)
    \/ l = 3 /\ first = 224 /\ second \in 160..191
    \/ l = 3 /\ first \in 225..239 /\ second \in 128..191
    \/ l = 4 /\ first = 240 /\ second \in 144..191
    \/ l = 4 /\ first \in 241..243 /\ second \in 128..191
    \/ l = 4 /\ first = 244 /\ second \in 128..143

\* the match on (l, first, second): TRUE when the arm falls through to
\* self.buf.next(), FALSE when it returns Some(None)
SecondOk(l, first, second) ==
    \/ l = 2 /\ IsCont(second)
    \/ l = 3 /\ first = 224 /\ second \in 160..191          \* 0xE0, 0xA0...0xBF
    \/ l = 3 /\ first \in 225..236 /\ second \in 128..191   \* 0xE1...0xEC
    \/ l = 3 /\ first = 237 /\ second \in 128..159          \* 0xED, 0x80...0x9F
    \/ l = 3 /\ first \in 238..239 /\ second \in 128..191   \* 0xEE...0xEF
    \/ l = 4 /\ first = 240 /\ second \in 144..191          \* 0xF0, 0x90...0xBF
    \/ l = 4 /\ first \in 241..243 /\ second \in 128..191   \* 0xF1...0xF3
    \/ l = 4 /\ first = 244 /\ second \in 128..143          \* 0xF4, 0x80...0x8F

LeadBitsNarrow(first, l) == first % Pow2(6 - l)

\* first & ((1 << (7 - l)) - 1)
LeadBits(first, l) == first % Pow2(7 - l)

RejectPosRescan(p1) == p1 - 1

RejectPosConsumed(p1) == p1 + 1

\* position of self.buf after a pull that returns Some(None) from the match:
\* the second byte was only peeked, self.buf.next() is not reached
RejectPos(p1) == p1

Malformed(to, stage) == [ok |-> FALSE, ch |-> 0, to |-> to, stage |-> stage]

\* the loop "for _ in 0 .. l-2": n iterations left, p bytes taken so far
RECURSIVE TailBytes(_, _, _, _)
TailBytes(bytes, p, n, result) ==
    IF n = 0 THEN [ok |-> TRUE, ch |-> result, to |-> p, stage |-> "multi"]
    ELSE IF p < Len(bytes)
         THEN LET next == bytes[p + 1] IN
              IF ~IsCont(next) THEN Malformed(p, "tail")
              ELSE TailBytes(bytes, p + 1, n - 1, result * 64 + ContBits(next))
         ELSE Malformed(p, "tail")

\* one pull with at least one byte left (pos < Len(bytes)): the item, the
\* position of the source after the pull and the place the pull returned from
Decode(bytes, pos) ==
    LET first == bytes[pos + 1]
        p1    == pos + 1
        l     == LeadingOnes(first)
    IN  IF first < 128 THEN [ok |-> TRUE, ch |-> first, to |-> p1, stage |-> "ascii"]
        ELSE IF p1 = Len(bytes) THEN Malformed(p1, "nosecond")
        ELSE LET second == bytes[p1 + 1] IN
             IF ~SecondOk(l, first, second) THEN Malformed(RejectPos(p1), "second")
             ELSE TailBytes(bytes, p1 + 1, l - 2,
                            LeadBits(first, l) * 64 + ContBits(second))

Utf8Next ==
    /\ IF upos = Len(ubytes)
       THEN /\ uended' = TRUE
            /\ UNCHANGED <<upos, uitems>>
       ELSE LET r == Decode(ubytes, upos) IN
            /\ uitems' = Append(uitems, [ok |-> r.ok, ch |-> r.ch, from |-> upos,
                                         to |-> r.to, stage |-> r.stage])
            /\ upos' = r.to
            /\ UNCHANGED uended
    /\ UNCHANGED <<ubytes, uorigin>>
    /\ UNCHANGED <<gvars, rvars, dvars, bvars>>

(***************************************************************************)
(* The standard UTF-8 encoding of a scalar (char::encode_utf8 of the       *)
(* standard library), used to build well-formed sources and to state the   *)
(* round trip.                                                             *)
(***************************************************************************)
EncodeUtf8(c) ==
    IF c < 128 THEN <<c>>
    ELSE IF c < 2048 THEN <<192 + (c \div 64), 128 + (c % 64)>>
    ELSE IF c < 65536
         THEN <<224 + (c \div 4096), 128 + ((c \div 64) % 64), 128 + (c % 64)>>
    ELSE <<240 + (c \div 262144), 128 + ((c \div 4096) % 64),
           128 + ((c \div 64) % 64), 128 + (c % 64)>>

RECURSIVE EncodeAll(_)
EncodeAll(cs) == IF cs = <<>> THEN <<>> ELSE EncodeUtf8(Head(cs)) \o EncodeAll(Tail(cs))

(***************************************************************************)
(* Groups::next_streaming and Group::next                                  *)
(***************************************************************************)
ElemSet == {0, 1, 2}

KeySet == {0, 1}

\* the loop of next_streaming, entered when !self.done: g is the key of the
\* element peeked on entry; elements are taken while their key equals g
RECURSIVE SkipLoop(_, _, _, _)
SkipLoop(src, f, p, g) ==
    IF p = Len(src) THEN [some |-> FALSE, key |-> g, to |-> p]
    ELSE IF f[src[p + 1]] # g THEN [some |-> TRUE, key |-> f[src[p + 1]], to |-> p]
    ELSE SkipLoop(src, f, p + 1, g)

\* Groups::next_streaming up to the return: whether a pair is returned, its
\* key and the position of self.iter
OuterPull(src, f, pos, dn) ==
    IF pos = Len(src) THEN [some |-> FALSE, key |-> 0, to |-> pos]
    ELSE LET g == f[src[pos + 1]] IN
         IF dn THEN [some |-> TRUE, key |-> g, to |-> pos]
         ELSE SkipLoop(src, f, pos, g)

GroupsNext ==
    LET r == OuterPull(gsrc, gf, gpos, done) IN
    /\ gpos' = r.to
    /\ glast' = [open |-> glive /\ ~done, openKey |-> gkey, from |-> gpos,
                 to |-> r.to, some |-> r.some, key |-> r.key]
    /\ drained' = (drained /\ done)
    /\ IF r.some
       THEN /\ done' = FALSE
            /\ glive' = TRUE
            /\ gkey' = r.key
            /\ outs' = Append(outs, [key |-> r.key, run |-> <<>>, ended |-> FALSE])
            /\ UNCHANGED gended
       ELSE /\ glive' = FALSE
            /\ gended' = TRUE
            /\ UNCHANGED <<done, gkey, outs>>
    /\ UNCHANGED <<gsrc, gf>>
    /\ UNCHANGED <<uvars, rvars, dvars, bvars>>

GroupStopPosPast(p) == p + 1

\* position of self.sup.iter when Group::next returns None on a mismatching
\* element: the element was only peeked
GroupStopPos(p) == p

GroupNext ==
    /\ glive
    /\ IF gpos < Len(gsrc) /\ gf[gsrc[gpos + 1]] = gkey
       THEN /\ gpos' = gpos + 1
            /\ outs' = [outs EXCEPT ![Len(outs)].run = Append(@, gsrc[gpos + 1])]
            /\ UNCHANGED done
       ELSE /\ done' = TRUE
            /\ gpos' = IF gpos < Len(gsrc) THEN GroupStopPos(gpos) ELSE gpos
            /\ outs' = [outs EXCEPT ![Len(outs)].ended = TRUE]
    /\ UNCHANGED <<gsrc, gf, glive, gkey, gended, drained, glast>>
    /\ UNCHANGED <<uvars, rvars, dvars, bvars>>

(***************************************************************************)
(* SliceTools::swap_remove and RemoveIter::next_streaming                  *)
(***************************************************************************)
ValSet == {0, 1, 2, 3}

\* slice.swap(a, b) with both indices in bounds (indices count from 0)
Swap(s, a, b) == [s EXCEPT ![a + 1] = s[b + 1], ![b + 1] = s[a + 1]]

SwapTargetFirst(len) == 0

\* the position swap_remove exchanges idx with: len - 1
SwapTarget(len) == len - 1

\* swap_remove(idx) on a slice with idx < len: the slice after the swap, the
\* element split off at the end and the rest
SwapRemove(s, idx) ==
    LET len == Len(s)
        t   == Swap(s, SwapTarget(len), idx)
    IN  [slice |-> t, item |-> t[len], rest |-> SubSeq(t, 1, len - 1)]

UndoSkipped(s, idx) == s

\* "Undo the swap_remove from the previous iteration"
Undo(s, idx) == Swap(s, idx - 1, Len(s) - 1)

NoItem(kind) == [kind |-> kind, item |-> 0, rest |-> <<>>]

RemoveNext ==
    /\ ~rpanic
    /\ LET len == Len(rslice) IN
       IF ridx > 0 /\ (len = 0 \/ ridx - 1 >= len)
       THEN \* len - 1 underflows or swap indexes out of bounds: panic
            /\ rpanic' = TRUE
            /\ rlast' = NoItem("panic")
            /\ UNCHANGED <<rslice, ridx, rpulls, rended>>
       ELSE LET undone == IF ridx > 0 THEN Undo(rslice, ridx) ELSE rslice IN
            /\ ridx' = ridx + 1
            /\ rpulls' = rpulls + 1
            /\ UNCHANGED rpanic
            /\ IF ridx + 1 > len
               THEN /\ rslice' = undone
                    /\ rlast' = NoItem("end")
                    /\ rended' = TRUE
               ELSE LET r == SwapRemove(undone, ridx) IN
                    /\ rslice' = r.slice
                    /\ rlast' = [kind |-> "item", item |-> r.item, rest |-> r.rest]
                    /\ UNCHANGED rended
    /\ UNCHANGED rorig
    /\ UNCHANGED <<uvars, gvars, dvars, bvars>>

(***************************************************************************)
(* DedupIter::next                                                         *)
(***************************************************************************)
DedupSkipOne(src, p, n) == IF p < Len(src) /\ src[p + 1] = n THEN p + 1 ELSE p

\* while self.iter.peek() == n.as_ref() { self.iter.next(); }
RECURSIVE DedupSkip(_, _, _)
DedupSkip(src, p, n) ==
    IF p < Len(src) /\ src[p + 1] = n THEN DedupSkip(src, p + 1, n) ELSE p

DedupNext ==
    /\ IF dpos = Len(dsrc)
       THEN /\ dended' = TRUE
            /\ UNCHANGED <<dpos, dout>>
       ELSE LET n == dsrc[dpos + 1] IN
            /\ dpos' = DedupSkip(dsrc, dpos + 1, n)
            /\ dout' = Append(dout, n)
            /\ UNCHANGED dended
    /\ UNCHANGED dsrc
    /\ UNCHANGED <<uvars, gvars, rvars, bvars>>

(***************************************************************************)
(* subslice_offset, VecTools::in_place, StringTools::in_place,             *)
(* SliceTools::promote and SliceTools::swap_remove.  A view is the address *)
(* of its first element and its length; the buffer operated on is at       *)
(* baddr, holds Len(bdata) elements of bsize bytes each.                   *)
(***************************************************************************)
\* element sizes: a zero-sized type, a byte, a two-byte type
SizeSet == {0, 1, 2}

\* addresses a buffer is allocated at
HeapAddrs == {16}

NoView == [addr |-> 0, len |-> 0]

NoOp ==
    [op |-> "none", ok |-> TRUE, a |-> NoView, b |-> NoView, ra |-> NoView,
     rb |-> NoView, idx |-> 0, item |-> 0, rest |-> <<>>, cap |-> 0, addr |-> 0]

\* the views a selector may return: they start one element before the buffer
\* up to one element after it and hold up to one element more than it
Views ==
    { [addr |-> baddr + k * (IF bsize = 0 THEN 1 ELSE bsize), len |-> m] :
        k \in -1..Len(bdata) + 1, m \in 0..Len(bdata) + 1 }

SubsliceOffsetNoEnd(aStart, aLen, bStart, bLen, size) ==
    IF ~(aStart <= bStart) \/ size = 0 THEN [ok |-> FALSE, offset |-> 0]
    ELSE [ok |-> TRUE, offset |-> (bStart - aStart) \div size]

\* subslice_offset(slf, inner): the two assertions, then the division by
\* mem::size_of::<T>(), which panics when the size is zero
SubsliceOffset(aStart, aLen, bStart, bLen, size) ==
    LET aEnd == aStart + aLen * size
        bEnd == bStart + bLen * size
    IN  IF ~(aStart <= bStart) THEN [ok |-> FALSE, offset |-> 0]
        ELSE IF ~(bEnd <= aEnd) THEN [ok |-> FALSE, offset |-> 0]
        ELSE IF size = 0 THEN [ok |-> FALSE, offset |-> 0]
        ELSE [ok |-> TRUE, offset |-> (bStart - aStart) \div size]

\* for i in (0..len2) { self.swap(i, i + offset); }, swap panicking on an
\* index out of bounds with the earlier exchanges in place
RECURSIVE SwapLoop(_, _, _, _)
SwapLoop(s, i, len2, offset) ==
    IF i = len2 THEN [ok |-> TRUE, data |-> s]
    ELSE IF i + offset >= Len(s) THEN [ok |-> FALSE, data |-> s]
    ELSE SwapLoop(Swap(s, i, i + offset), i + 1, len2, offset)

\* self.truncate(len2): the length shrinks, the allocation is kept
Truncate(s, cap, n) == [data |-> SubSeq(s, 1, n), cap |-> cap]

\* Vec<T>::in_place with the selector returning view v
VecInPlace(v) ==
    /\ bres.op = "none"
    /\ bkind = "vec"
    /\ LET r   == SubsliceOffset(baddr, Len(bdata), v.addr, v.len, bsize)
           sw  == SwapLoop(bdata, 0, v.len, r.offset)
           t   == Truncate(sw.data, bcap, v.len)
           res == [NoOp EXCEPT !.op = "in_place", !.a = v, !.cap = bcap,
                               !.addr = baddr]
       IN  IF ~r.ok
           THEN /\ bres' = [res EXCEPT !.ok = FALSE]
                /\ UNCHANGED <<bdata, bcap>>
           ELSE IF ~sw.ok
           THEN /\ bres' = [res EXCEPT !.ok = FALSE]
                /\ bdata' = sw.data
                /\ UNCHANGED bcap
           ELSE /\ bres' = res
                /\ bdata' = t.data
                /\ bcap' = t.cap
    /\ bpre' = bdata
    /\ UNCHANGED <<bkind, bsize, baddr>>
    /\ UNCHANGED <<uvars, gvars, rvars, dvars>>

\* intrinsics::copy_memory(dst, src, n) with dst at the start of the buffer
\* and src offset bytes after it: a memmove, bytes copied front to back
RECURSIVE CopyMemory(_, _, _, _)
CopyMemory(s, i, n, offset) ==
    IF i = n THEN s
    ELSE CopyMemory([s EXCEPT ![i + 1] = s[i + offset + 1]], i + 1, n, offset)

\* str::subslice_offset of the standard library, called on a String: the
\* two assertions and the difference of the addresses (elements are bytes)
StrSubsliceOffset(aStart, aLen, bStart, bLen) ==
    IF ~(aStart <= bStart) THEN [ok |-> FALSE, offset |-> 0]
    ELSE IF ~(bStart + bLen <= aStart + aLen) THEN [ok |-> FALSE, offset |-> 0]
    ELSE [ok |-> TRUE, offset |-> bStart - aStart]

\* String::in_place with the selector returning view v
StringInPlace(v) ==
    /\ bres.op = "none"
    /\ bkind = "string"
    /\ LET r   == StrSubsliceOffset(baddr, Len(bdata), v.addr, v.len)
           res == [NoOp EXCEPT !.op = "in_place", !.a = v, !.cap = bcap,
                               !.addr = baddr]
       IN  IF ~r.ok
           THEN /\ bres' = [res EXCEPT !.ok = FALSE]
                /\ UNCHANGED bdata
           ELSE /\ bres' = res
                /\ bdata' = SubSeq(CopyMemory(bdata, 0, v.len, r.offset), 1, v.len)
    /\ bpre' = bdata
    /\ UNCHANGED <<bkind, bsize, baddr, bcap>>
    /\ UNCHANGED <<uvars, gvars, rvars, dvars>>

PromoteCheckNoDisjoint(base, len, size, va, vb) ==
    LET a == IF va.addr > vb.addr THEN vb ELSE va
        b == IF va.addr > vb.addr THEN va ELSE vb
    IN  [ok |-> /\ a.addr >= base
                /\ b.addr + b.len * size <= base + len * size,
         a |-> a, b |-> b]

\* promote up to the transmute: the two views ordered by address and the
\* three assertions
PromoteCheck(base, len, size, va, vb) ==
    LET a == IF va.addr > vb.addr THEN vb ELSE va
        b == IF va.addr > vb.addr THEN va ELSE vb
    IN  [ok |-> /\ a.addr >= base
                /\ b.addr >= a.addr + a.len * size
                /\ b.addr + b.len * size <= base + len * size,
         a |-> a, b |-> b]

\* [T]::promote with the selector returning the views va and vb
Promote(va, vb) ==
    /\ bres.op = "none"
    /\ bkind = "vec"
    /\ LET r == PromoteCheck(baddr, Len(bdata), bsize, va, vb) IN
       bres' = [NoOp EXCEPT !.op = "promote", !.ok = r.ok, !.a = va, !.b = vb,
                            !.ra = IF r.ok THEN r.a ELSE NoView,
                            !.rb = IF r.ok THEN r.b ELSE NoView,
                            !.cap = bcap, !.addr = baddr]
    /\ bpre' = bdata
    /\ UNCHANGED <<bkind, bsize, baddr, bcap, bdata>>
    /\ UNCHANGED <<uvars, gvars, rvars, dvars>>

\* [T]::swap_remove(idx), called directly
SwapRemoveCall(idx) ==
    /\ bres.op = "none"
    /\ bkind = "vec"
    /\ LET len == Len(bdata)
           res == [NoOp EXCEPT !.op = "swap_remove", !.idx = idx, !.cap = bcap,
                               !.addr = baddr]
       IN  IF len = 0 \/ idx >= len
           THEN \* assert!(len > 0) or self.swap out of bounds: panic
                /\ bres' = [res EXCEPT !.ok = FALSE]
                /\ UNCHANGED bdata
           ELSE LET r == SwapRemove(bdata, idx) IN
                /\ bres' = [res EXCEPT !.item = r.item, !.rest = r.rest]
                /\ bdata' = r.slice
    /\ bpre' = bdata
    /\ UNCHANGED <<bkind, bsize, baddr, bcap>>
    /\ UNCHANGED <<uvars, gvars, rvars, dvars>>

(***************************************************************************)
(* Specifications: one per component, the other components left unused.    *)
(***************************************************************************)
Utf8Unused ==
    /\ ubytes = <<>>
    /\ upos = 0
    /\ uitems = <<>>
    /\ uended = FALSE
    /\ uorigin = [prefix |-> <<>>, scalars |-> <<>>, raw |-> TRUE]

GroupsUnused ==
    /\ gsrc = <<>>
    /\ gf = [e \in ElemSet |-> 0]
    /\ gpos = 0
    /\ done = TRUE
    /\ glive = FALSE
    /\ gkey = 0
    /\ outs = <<>>
    /\ gended = FALSE
    /\ drained = TRUE
    /\ glast = [open |-> FALSE, openKey |-> 0, from |-> 0, to |-> 0,
                some |-> FALSE, key |-> 0]

RemoveUnused ==
    /\ rorig = <<>>
    /\ rslice = <<>>
    /\ ridx = 0
    /\ rpulls = 0
    /\ rlast = NoItem("none")
    /\ rended = FALSE
    /\ rpanic = FALSE

DedupUnused ==
    /\ dsrc = <<>>
    /\ dpos = 0
    /\ dout = <<>>
    /\ dended = FALSE

BufUnused ==
    /\ bkind = "vec"
    /\ bsize = 1
    /\ baddr = 0
    /\ bcap = 0
    /\ bdata = <<>>
    /\ bpre = <<>>
    /\ bres = NoOp

InitUtf8 ==
    /\ ubytes \in SeqsUpTo(ByteSet, MaxBytes)
    /\ upos = 0
    /\ uitems = <<>>
    /\ uended = FALSE
    /\ uorigin = [prefix |-> <<>>, scalars |-> <<>>, raw |-> TRUE]
    /\ GroupsUnused
    /\ RemoveUnused
    /\ DedupUnused
    /\ BufUnused

InitUtf8Enc ==
    /\ \E pre \in {<<>>} \cup { <<b>> : b \in BadLeadSet },
          cs \in SeqsUpTo(ScalarSet, MaxScalars) :
          /\ ubytes = pre \o EncodeAll(cs)
          /\ uorigin = [prefix |-> pre, scalars |-> cs, raw |-> FALSE]
    /\ upos = 0
    /\ uitems = <<>>
    /\ uended = FALSE
    /\ GroupsUnused
    /\ RemoveUnused
    /\ DedupUnused
    /\ BufUnused

\* IterTools::group: Groups { iter: self.peekable(), f: f, done: true }
InitGroups ==
    /\ gsrc \in SeqsUpTo(ElemSet, MaxSrc)
    /\ gf \in [ElemSet -> KeySet]
    /\ gpos = 0
    /\ done = TRUE
    /\ glive = FALSE
    /\ gkey = 0
    /\ outs = <<>>
    /\ gended = FALSE
    /\ drained = TRUE
    /\ glast = [open |-> FALSE, openKey |-> 0, from |-> 0, to |-> 0,
                some |-> FALSE, key |-> 0]
    /\ Utf8Unused
    /\ RemoveUnused
    /\ DedupUnused
    /\ BufUnused

\* SliceTools::remove_iter: RemoveIter { slice: self, idx: 0 }
InitRemove ==
    /\ rorig \in SeqsUpTo(ValSet, MaxSlice)
    /\ rslice = rorig
    /\ ridx = 0
    /\ rpulls = 0
    /\ rlast = NoItem("none")
    /\ rended = FALSE
    /\ rpanic = FALSE
    /\ Utf8Unused
    /\ GroupsUnused
    /\ DedupUnused
    /\ BufUnused

\* IterTools::dedup: DedupIter { iter: self.peekable() }
InitDedup ==
    /\ dsrc \in SeqsUpTo(ElemSet, MaxDedup)
    /\ dpos = 0
    /\ dout = <<>>
    /\ dended = FALSE
    /\ Utf8Unused
    /\ GroupsUnused
    /\ RemoveUnused
    /\ BufUnused

\* a Vec<T> (also operated on as [T]) or a String with any contents, a
\* zero-sized element type having one value only
InitBuf ==
    /\ bkind \in {"vec", "string"}
    /\ bsize \in (IF bkind = "string" THEN {1} ELSE SizeSet)
    /\ baddr \in HeapAddrs
    /\ bdata \in SeqsUpTo(IF bsize = 0 THEN {0} ELSE ElemSet, MaxBuf)
    /\ bcap \in {Len(bdata), Len(bdata) + 1}
    /\ bpre = bdata
    /\ bres = NoOp
    /\ Utf8Unused
    /\ GroupsUnused
    /\ RemoveUnused
    /\ DedupUnused

NextUtf8 == Utf8Next

\* one operation per buffer, with whatever the selector or the caller passes
CallVecInPlace == bres.op = "none" /\ \E v \in Views : VecInPlace(v)

CallStringInPlace == bres.op = "none" /\ \E v \in Views : StringInPlace(v)

CallPromote == bres.op = "none" /\ \E va, vb \in Views : Promote(va, vb)

CallSwapRemove ==
    bres.op = "none" /\ \E idx \in 0..Len(bdata) : SwapRemoveCall(idx)

NextBuf == CallVecInPlace \/ CallStringInPlace \/ CallPromote \/ CallSwapRemove

SpecBuf == InitBuf /\ [][NextBuf]_vars

NextDedup == DedupNext

SpecDedup == InitDedup /\ [][NextDedup]_vars

NextGroups == GroupsNext \/ GroupNext

NextRemove == RemoveNext

SpecUtf8 == InitUtf8 /\ [][NextUtf8]_vars

SpecUtf8Enc == InitUtf8Enc /\ [][NextUtf8]_vars

SpecGroups == InitGroups /\ [][NextGroups]_vars

SpecRemove == InitRemove /\ [][NextRemove]_vars

(***************************************************************************)
(* Claims about the decoder.                                               *)
(***************************************************************************)
\* what the caller sees of each pull: Some(c) or None (malformed)
Yielded == [i \in 1..Len(uitems) |-> [ok |-> uitems[i].ok, ch |-> uitems[i].ch]]

\* the items a source built from a prefix and scalars is expected to yield
Expected ==
    (IF uorigin.prefix = <<>> THEN <<>> ELSE << [ok |-> FALSE, ch |-> 0] >>)
    \o [i \in 1..Len(uorigin.scalars) |-> [ok |-> TRUE, ch |-> uorigin.scalars[i]]]

YieldsExpected ==
    /\ Len(uitems) <= Len(Expected)
    /\ Yielded = SubSeq(Expected, 1, Len(uitems))
    /\ (Len(uitems) = Len(Expected)) = (upos = Len(ubytes))
    /\ uended => Len(uitems) = Len(Expected)

RECURSIVE ReEncoded(_)
ReEncoded(items) ==
    IF items = <<>> THEN <<>>
    ELSE (IF Head(items).ok THEN EncodeUtf8(Head(items).ch) ELSE <<>>)
         \o ReEncoded(Tail(items))

RECURSIVE ConsumedValid(_)
ConsumedValid(items) ==
    IF items = <<>> THEN <<>>
    ELSE (IF Head(items).ok
          THEN SubSeq(ubytes, Head(items).from + 1, Head(items).to) ELSE <<>>)
         \o ConsumedValid(Tail(items))

\* C1: re-encoding the scalars yielded so far gives exactly the bytes consumed
\* by the pulls that yielded them (round trip on the portion judged valid).
C1_RoundTrip == ReEncoded(uitems) = ConsumedValid(uitems)

\* C2: a source that is the concatenation of the shortest-form encodings of
\* scalars yields exactly those scalars, in order, no malformed marker, and
\* reports end exactly when all of them have been yielded.
C2_DecodesEncoded == (uorigin.prefix = <<>> /\ ~uorigin.raw) => YieldsExpected

C2_Witness ==
    /\ uorigin.prefix = <<>> /\ ~uorigin.raw /\ uended
    /\ Len(uitems) = 2
    /\ uitems[1].ch >= 65536 /\ uitems[2].ch \in 2048..65535

\* C3: every scalar yielded is in U+0000..U+D7FF or U+E000..U+10FFFF.
C3_ScalarRange ==
    \A i \in 1..Len(uitems) :
        uitems[i].ok =>
            \/ uitems[i].ch >= 0 /\ uitems[i].ch <= 55295
            \/ uitems[i].ch >= 57344 /\ uitems[i].ch <= 1114111

C3_Witness ==
    /\ uorigin.raw
    /\ \E i \in 1..Len(uitems) : uitems[i].ok /\ uitems[i].ch = 1114111

\* C4 as stated: a pull that rejects at the match on (l, first, second)
\* consumes the lead byte and the peeked second byte.
C4_RejectConsumesPeeked ==
    \A i \in 1..Len(uitems) :
        uitems[i].stage = "second" => uitems[i].to = uitems[i].from + 2

\* C4 amended: a pull that rejects at the match on (l, first, second)
\* consumes the lead byte only; the peeked second byte stays in the source
\* and the next pull starts at it.
C4_RejectConsumesLeadOnly ==
    \A i \in 1..Len(uitems) :
        uitems[i].stage = "second" =>
            /\ uitems[i].to = uitems[i].from + 1
            /\ i < Len(uitems) => uitems[i + 1].from = uitems[i].from + 1

C4_Witness ==
    \E i \in 1..Len(uitems) :
        /\ uitems[i].stage = "second"
        /\ i < Len(uitems)
        /\ uitems[i + 1].ok /\ uitems[i + 1].stage = "multi"

\* C5: a byte that cannot start a unit followed by a well-formed source
\* yields one malformed marker and then exactly the scalars of that source.
C5_BadLeadThenResume == (uorigin.prefix # <<>> /\ ~uorigin.raw) => YieldsExpected

C5_Witness ==
    /\ uorigin.prefix # <<>> /\ ~uorigin.raw /\ uended
    /\ Len(uitems) = 3
    /\ ~uitems[1].ok /\ uitems[1].stage = "second"
    /\ uitems[2].ok /\ uitems[2].stage = "multi"

(***************************************************************************)
(* Claims about the group-by iterator.                                     *)
(***************************************************************************)
RECURSIVE ConcatRuns(_)
ConcatRuns(os) == IF os = <<>> THEN <<>> ELSE Head(os).run \o ConcatRuns(Tail(os))

\* the position after the longest stretch of elements of key k starting at p
RECURSIVE SkipRun(_, _, _, _)
SkipRun(src, f, p, k) ==
    IF p < Len(src) /\ f[src[p + 1]] = k THEN SkipRun(src, f, p + 1, k) ELSE p

\* C6: when every sub-iterator is pulled until it reports end before the next
\* outer pull, the runs yielded, concatenated in order, are the part of the
\* source consumed so far, and the whole source once the outer pull reports end.
C6_RunsReproduceSource ==
    drained =>
        /\ ConcatRuns(outs) = SubSeq(gsrc, 1, gpos)
        /\ gended => ConcatRuns(outs) = gsrc

C6_Witness ==
    /\ drained /\ gended
    /\ Len(outs) >= 3
    /\ \E i \in 1..Len(outs) : Len(outs[i].run) >= 2

\* C7: the keys yielded by two consecutive outer pulls are different.
C7_ConsecutiveKeysDiffer ==
    \A i \in 1..Len(outs) - 1 : outs[i].key # outs[i + 1].key

\* C8: an outer pull made while the previous run is still open advances the
\* source past exactly the remaining elements of the open run's key and, when
\* elements remain, yields the pair of the run that starts there.
C8_OpenRunSkippedExactly ==
    glast.open =>
        LET p == SkipRun(gsrc, gf, glast.from, glast.openKey) IN
        /\ glast.to = p
        /\ glast.some = (p < Len(gsrc))
        /\ glast.some => glast.key = gf[gsrc[p + 1]]

(***************************************************************************)
(* Claims about the remove iterator.                                       *)
(***************************************************************************)
RECURSIVE Count(_, _)
Count(s, v) ==
    IF s = <<>> THEN 0 ELSE (IF Head(s) = v THEN 1 ELSE 0) + Count(Tail(s), v)

\* C9: for i in 1..N the i-th pull yields the element originally at position
\* i-1 and a rest of length N-1 that is, as a multiset, the original slice
\* minus that element.
C9_PullYieldsIthAndRest ==
    (rpulls >= 1 /\ rpulls <= Len(rorig)) =>
        /\ rlast.kind = "item"
        /\ rlast.item = rorig[rpulls]
        /\ Len(rlast.rest) = Len(rorig) - 1
        /\ \A v \in ValSet :
               Count(rlast.rest, v) + (IF v = rlast.item THEN 1 ELSE 0)
                   = Count(rorig, v)

C9_Witness ==
    /\ Len(rorig) >= 4
    /\ rpulls = 2
    /\ rlast.kind = "item"
    /\ rlast.rest # SubSeq(rorig, 1, 1) \o SubSeq(rorig, 3, Len(rorig))

\* C10: once a pull has reported end, the slice is in its original order.
C10_OrderRestored == rended => rslice = rorig

C10_Witness ==
    /\ rended
    /\ Len(rorig) >= 3
    /\ \A i, j \in 1..Len(rorig) : i # j => rorig[i] # rorig[j]

\* C11: the first N pulls yield an item, pull N+1 reports end, and every
\* further pull reports end as well, without failing and with the slice as
\* it was.
C11_PermanentlyExhausted ==
    /\ ~rpanic
    /\ (rpulls >= 1 /\ rpulls <= Len(rorig)) => rlast.kind = "item"
    /\ rpulls > Len(rorig) => (rlast.kind = "end" /\ rslice = rorig)

\* C19: before the first pull the slice is the original; after k item-yielding
\* pulls it is the original with positions k-1 and N-1 exchanged; it is always
\* a permutation of the original.
C19_OneExchangeBetweenPulls ==
    /\ rpulls = 0 => rslice = rorig
    /\ (rpulls >= 1 /\ rpulls <= Len(rorig)) =>
           rslice = Swap(rorig, rpulls - 1, Len(rorig) - 1)
    /\ \A v \in ValSet : Count(rslice, v) = Count(rorig, v)

C19_Witness ==
    /\ Len(rorig) >= 4
    /\ rpulls = 2
    /\ rlast.kind = "item"
    /\ rslice # rorig

\* C18: a sub-iterator only yields elements of its run's key, and once it has
\* reported end it has yielded exactly the longest stretch of that key that
\* the source held when the pair was yielded; the element that ended it is
\* still the next one the source delivers.
C18_RunIsLongestPrefix ==
    /\ \A i \in 1..Len(outs) :
           \A j \in 1..Len(outs[i].run) : gf[outs[i].run[j]] = outs[i].key
    /\ (glive /\ outs[Len(outs)].ended) =>
           LET stop == SkipRun(gsrc, gf, glast.to, gkey) IN
           /\ outs[Len(outs)].run = SubSeq(gsrc, glast.to + 1, stop)
           /\ gpos = stop

C18_Witness ==
    /\ glive /\ outs[Len(outs)].ended
    /\ Len(outs[Len(outs)].run) >= 2
    /\ gpos < Len(gsrc)

\* C20: every pull that found a byte consumed between one and four bytes and
\* yielded one item, the pulls consumed the source in order without overlap,
\* end is reported only with no byte left, and a source of n bytes yields at
\* most n items.
C20_DecoderProgress ==
    /\ \A i \in 1..Len(uitems) :
           /\ uitems[i].to - uitems[i].from >= 1
           /\ uitems[i].to - uitems[i].from <= 4
           /\ uitems[i].from = (IF i = 1 THEN 0 ELSE uitems[i - 1].to)
    /\ upos = (IF uitems = <<>> THEN 0 ELSE uitems[Len(uitems)].to)
    /\ upos <= Len(ubytes)
    /\ Len(uitems) <= Len(ubytes)
    /\ uended => upos = Len(ubytes)

C20_Witness ==
    /\ uorigin.raw /\ uended
    /\ Len(ubytes) = 4
    /\ Len(uitems) = 4
    /\ \A i \in 1..Len(uitems) : ~uitems[i].ok

(***************************************************************************)
(* Claims about the dedup iterator.                                        *)
(***************************************************************************)
\* Vec::dedup: an element is kept unless it equals the one before it
RECURSIVE VecDedup(_)
VecDedup(s) ==
    IF Len(s) <= 1 THEN s
    ELSE LET front == VecDedup(SubSeq(s, 1, Len(s) - 1)) IN
         IF s[Len(s)] = s[Len(s) - 1] THEN front ELSE Append(front, s[Len(s)])

\* C17: the elements yielded are the source consumed so far with every run of
\* consecutive equal elements collapsed to its first element: the whole
\* source once end is reported, with no two consecutive yielded elements
\* equal.
C17_DedupCollapsesRuns ==
    /\ dout = VecDedup(SubSeq(dsrc, 1, dpos))
    /\ dended => dout = VecDedup(dsrc)
    /\ \A i \in 1..Len(dout) - 1 : dout[i] # dout[i + 1]

C17_Witness ==
    /\ dended
    /\ Len(dsrc) >= 5
    /\ Len(dout) = 3
    /\ dout[1] = dout[3]
    /\ dsrc[1] = dsrc[2] /\ dsrc[2] = dsrc[3]

(***************************************************************************)
(* Claims about in_place, promote and swap_remove.  They read the last     *)
(* operation bres, the contents bpre before it and the buffer after it.    *)
(***************************************************************************)
\* view v is the sub-range [off, off + v.len) of the buffer before the call
IsSubRange(v, off) ==
    /\ v.addr = bres.addr + off * bsize
    /\ off + v.len <= Len(bpre)

\* view v lies inside the buffer before the call
Inside(v) ==
    /\ bres.addr <= v.addr
    /\ v.addr + v.len * bsize <= bres.addr + Len(bpre) * bsize

\* views v and w have at least one element in common
Overlap(v, w) ==
    /\ v.len * bsize > 0
    /\ w.len * bsize > 0
    /\ v.addr < w.addr + w.len * bsize
    /\ w.addr < v.addr + v.len * bsize

InPlaceKept(off) ==
    /\ bres.ok
    /\ bcap = bres.cap
    /\ baddr = bres.addr
    /\ Len(bdata) = bres.a.len
    /\ bdata = SubSeq(bpre, off + 1, off + bres.a.len)

\* C12: in_place with a selector returning the sub-range [off, off+len) of
\* the contents leaves capacity and address as they were, the length len and
\* the contents of the sub-range, in order.
C12_InPlaceKeepsSelection ==
    bres.op = "in_place" =>
        \A off \in 0..Len(bpre) : IsSubRange(bres.a, off) => InPlaceKept(off)

\* in_place does what C12 says on every buffer whose elements have a size
\* other than zero, overlapping source and destination included
InPlaceSizedKeepsSelection ==
    (bres.op = "in_place" /\ bsize # 0) =>
        \A off \in 0..Len(bpre) : IsSubRange(bres.a, off) => InPlaceKept(off)

\* C13: Vec::in_place with a view that starts before the buffer or ends after
\* it fails, and the buffer's contents and length are as before the call.
C13_InPlaceRejectsOutside ==
    (bres.op = "in_place" /\ bkind = "vec" /\ ~Inside(bres.a)) =>
        /\ ~bres.ok
        /\ bdata = bpre
        /\ bcap = bres.cap

C13_Witness ==
    /\ bres.op = "in_place" /\ bkind = "vec" /\ ~bres.ok
    /\ bsize = 2
    /\ Len(bpre) >= 3
    /\ bres.a.addr > bres.addr
    /\ bres.a.addr + bres.a.len * bsize > bres.addr + Len(bpre) * bsize
    /\ bpre[1] # bpre[2]

\* C14: when promote returns, both views lie inside the parent and share no
\* element; when the views of the selector overlap or one of them is not
\* inside the parent, promote fails.
C14_PromoteNeverAliases ==
    bres.op = "promote" =>
        /\ bres.ok => (/\ Inside(bres.ra)
                       /\ Inside(bres.rb)
                       /\ ~Overlap(bres.ra, bres.rb))
        /\ (Overlap(bres.a, bres.b) \/ ~Inside(bres.a) \/ ~Inside(bres.b))
               => ~bres.ok

C14_Witness ==
    /\ bres.op = "promote" /\ bres.ok
    /\ bsize = 2
    /\ bres.ra.len >= 1 /\ bres.rb.len >= 2
    /\ bres.rb.addr = bres.ra.addr + bres.ra.len * bsize
    /\ bres.a = bres.rb /\ bres.b = bres.ra

\* C15: promote accepts every pair of views inside the parent that share no
\* element, empty views included and in either order, and returns the two
\* selected views.
C15_PromoteAcceptsDisjoint ==
    (bres.op = "promote" /\ Inside(bres.a) /\ Inside(bres.b)
        /\ ~Overlap(bres.a, bres.b)) =>
        /\ bres.ok
        /\ {bres.ra, bres.rb} = {bres.a, bres.b}

=============================================================================
